---- MODULE Spec2Model ----
(***************************************************************************)
(* A model of MusicalKeyboard (src/lib.rs): the translation of computer    *)
(* keyboard presses and releases into NoteOn / NoteOff events.             *)
(*                                                                         *)
(* Velocity is an f32 in the source; here it is counted in hundredths, so  *)
(* that the step of 0.05 is the integer 5 and 1.0 is 100.                  *)
(***************************************************************************)
EXTENDS Integers, FiniteSets, Sequences, TLC

\* ------------------------------------------------------------------ bounds

\* The number of key_pressed / key_released calls made on one keyboard.
MaxEvents == 4

\* ------------------------------------------------------------------ types

\* enum Key: the keys associated with notes, the octave keys, the velocity keys.
NoteKeys ==
    {"A", "W", "S", "E", "D", "F", "T", "G", "Y", "H", "U", "J",
     "K", "O", "L", "P", "Semicolon", "Quote"}

OctaveKeys == {"Z", "X"}

VelocityKeys == {"C", "V"}

Key == NoteKeys \cup OctaveKeys \cup VelocityKeys

\* pitch::Letter
Letter == {"C", "Csh", "D", "Dsh", "E", "F", "Fsh", "G", "Gsh", "A", "Ash", "B"}

\* Option::None, and the two event structs.
None == [type |-> "None"]

NoteOn(letter, oct, vel) ==
    [type |-> "NoteOn", letter |-> letter, octave |-> oct, velocity |-> vel]

NoteOff(letter, oct) ==
    [type |-> "NoteOff", letter |-> letter, octave |-> oct]

\* ------------------------------------------------------------------ state

VARIABLES
    octave,                  \* MusicalKeyboard.octave
    velocity,                \* MusicalKeyboard.velocity, in hundredths
    currently_pressed_keys,  \* MusicalKeyboard.currently_pressed_keys: Key -> Octave
    call,                    \* the last call made: [op, key]
    ret,                     \* what the last call returned
    sounding,                \* history: Key -> octave of the NoteOn last returned for
                             \* the key, for the keys with no NoteOff returned since
    presses,                 \* history: Key -> the key_pressed calls made for the note
                             \* key since its last key_released call
    releases,                \* history: Key -> the key_released calls made for the note
                             \* key since its last key_pressed call
    before,                  \* history: octave and velocity as the last call found them
    events                   \* the number of calls made

vars ==
    <<octave, velocity, currently_pressed_keys, call, ret, sounding, presses,
      releases, before, events>>

\* ------------------------------------------------------------------ HashMap

\* HashMap::new()
HashMap_new == [k \in {} |-> 0]

\* HashMap::insert that drops every other entry.
HashMap_insert_only_entry(map, key, value) ==
    [map  |-> [k \in {key} |-> value],
     had  |-> key \in DOMAIN map]

\* HashMap::insert: the value is stored whether or not the key was present,
\* and the value it replaces (if any) is returned.
HashMap_insert(map, key, value) ==
    [map  |-> [k \in DOMAIN map \cup {key} |-> IF k = key THEN value ELSE map[k]],
     had  |-> key \in DOMAIN map]

\* HashMap::remove that returns the entry's value and leaves the entry.
HashMap_remove_leaves_entry(map, key) ==
    [map  |-> map,
     had  |-> key \in DOMAIN map,
     old  |-> IF key \in DOMAIN map THEN map[key] ELSE 0]

\* HashMap::remove: the entry is dropped and its value (if any) returned.
HashMap_remove(map, key) ==
    [map  |-> [k \in DOMAIN map \ {key} |-> map[k]],
     had  |-> key \in DOMAIN map,
     old  |-> IF key \in DOMAIN map THEN map[key] ELSE 0]

\* ------------------------------------------------------------------ constants

\* The guards and steps of key_pressed.
MinOctave == -2
MaxOctave == 12
MinVelocity == 0
MaxVelocity == 100
VelocityStep == 5

\* MusicalKeyboard::default() is new(2, 1.0).
DefaultOctave == 2
DefaultVelocity == 100

\* ------------------------------------------------------------------ methods

\* The match of maybe_note with the arm of Key::Semicolon repeating that of Key::P.
NoteTable_repeated_arm ==
    [k \in NoteKeys |->
        CASE k = "A"         -> <<0, "C">>
          [] k = "W"         -> <<0, "Csh">>
          [] k = "S"         -> <<0, "D">>
          [] k = "E"         -> <<0, "Dsh">>
          [] k = "D"         -> <<0, "E">>
          [] k = "F"         -> <<0, "F">>
          [] k = "T"         -> <<0, "Fsh">>
          [] k = "G"         -> <<0, "G">>
          [] k = "Y"         -> <<0, "Gsh">>
          [] k = "H"         -> <<0, "A">>
          [] k = "U"         -> <<0, "Ash">>
          [] k = "J"         -> <<0, "B">>
          [] k = "K"         -> <<1, "C">>
          [] k = "O"         -> <<1, "Csh">>
          [] k = "L"         -> <<1, "D">>
          [] k = "P"         -> <<1, "Dsh">>
          [] k = "Semicolon" -> <<1, "Dsh">>
          [] k = "Quote"     -> <<1, "F">>]

\* The match of maybe_note: (relative octave, letter) of a key with a note.
NoteTable ==
    [k \in NoteKeys |->
        CASE k = "A"         -> <<0, "C">>
          [] k = "W"         -> <<0, "Csh">>
          [] k = "S"         -> <<0, "D">>
          [] k = "E"         -> <<0, "Dsh">>
          [] k = "D"         -> <<0, "E">>
          [] k = "F"         -> <<0, "F">>
          [] k = "T"         -> <<0, "Fsh">>
          [] k = "G"         -> <<0, "G">>
          [] k = "Y"         -> <<0, "Gsh">>
          [] k = "H"         -> <<0, "A">>
          [] k = "U"         -> <<0, "Ash">>
          [] k = "J"         -> <<0, "B">>
          [] k = "K"         -> <<1, "C">>
          [] k = "O"         -> <<1, "Csh">>
          [] k = "L"         -> <<1, "D">>
          [] k = "P"         -> <<1, "Dsh">>
          [] k = "Semicolon" -> <<1, "E">>
          [] k = "Quote"     -> <<1, "F">>]

\* maybe_note with a last arm that yields a note instead of None.
maybe_note_any_key(self_octave, key) ==
    IF key \in DOMAIN NoteTable
    THEN [some |-> TRUE, letter |-> NoteTable[key][2],
          octave |-> NoteTable[key][1] + self_octave]
    ELSE [some |-> TRUE, letter |-> "C", octave |-> self_octave]

\* maybe_note without the base octave added to the table's octave.
maybe_note_relative(self_octave, key) ==
    IF key \in DOMAIN NoteTable
    THEN [some |-> TRUE, letter |-> NoteTable[key][2], octave |-> NoteTable[key][1]]
    ELSE [some |-> FALSE]

\* maybe_note: Some((letter, octave + self.octave)) for a key of the table,
\* None for every other key.
maybe_note(self_octave, key) ==
    IF key \in DOMAIN NoteTable
    THEN [some |-> TRUE, letter |-> NoteTable[key][2],
          octave |-> NoteTable[key][1] + self_octave]
    ELSE [some |-> FALSE]

\* maybe_note_on without the test of what insert returned.
maybe_note_on_every_press(self_octave, self_velocity, self_keys, key) ==
    LET note == maybe_note(self_octave, key) IN
    IF ~note.some
    THEN [keys |-> self_keys, ret |-> None]
    ELSE [keys |-> HashMap_insert(self_keys, key, note.octave).map,
          ret  |-> NoteOn(note.letter, note.octave, self_velocity)]

\* maybe_note_on: the key's octave is inserted, and a NoteOn is returned only
\* when insert found no entry for the key.
maybe_note_on(self_octave, self_velocity, self_keys, key) ==
    LET note == maybe_note(self_octave, key) IN
    IF ~note.some
    THEN [keys |-> self_keys, ret |-> None]
    ELSE LET ins == HashMap_insert(self_keys, key, note.octave) IN
         [keys |-> ins.map,
          ret  |-> IF ins.had
                   THEN None
                   ELSE NoteOn(note.letter, note.octave, self_velocity)]

\* maybe_note_off reading the entry with get instead of remove.
maybe_note_off_keeps_entry(self_octave, self_keys, key) ==
    LET note == maybe_note(self_octave, key) IN
    IF ~note.some
    THEN [keys |-> self_keys, ret |-> None]
    ELSE [keys |-> self_keys,
          ret  |-> IF key \in DOMAIN self_keys
                   THEN NoteOff(note.letter, self_keys[key])
                   ELSE NoteOff(note.letter, note.octave)]

\* maybe_note_off returning a NoteOff only for a key that had an entry.
maybe_note_off_only_held(self_octave, self_keys, key) ==
    LET note == maybe_note(self_octave, key) IN
    IF ~note.some
    THEN [keys |-> self_keys, ret |-> None]
    ELSE LET rem == HashMap_remove(self_keys, key) IN
         [keys |-> rem.map,
          ret  |-> IF rem.had THEN NoteOff(note.letter, rem.old) ELSE None]

\* maybe_note_off clearing the map instead of removing the one key.
maybe_note_off_clears_all(self_octave, self_keys, key) ==
    LET note == maybe_note(self_octave, key) IN
    IF ~note.some
    THEN [keys |-> self_keys, ret |-> None]
    ELSE [keys |-> HashMap_new,
          ret  |-> IF key \in DOMAIN self_keys
                   THEN NoteOff(note.letter, self_keys[key])
                   ELSE NoteOff(note.letter, note.octave)]

\* maybe_note_off: the key's entry is removed; the NoteOff carries the removed
\* octave, or the key's current octave when there was no entry.
maybe_note_off(self_octave, self_keys, key) ==
    LET note == maybe_note(self_octave, key) IN
    IF ~note.some
    THEN [keys |-> self_keys, ret |-> None]
    ELSE LET rem == HashMap_remove(self_keys, key) IN
         [keys |-> rem.map,
          ret  |-> IF rem.had
                   THEN NoteOff(note.letter, rem.old)
                   ELSE NoteOff(note.letter, note.octave)]

\* The Z arm with the bound itself passing the guard.
octave_down_inclusive_guard(o) == IF o >= MinOctave THEN o - 1 ELSE o

\* The four modifier arms of key_pressed.
octave_down(o) == IF o > MinOctave THEN o - 1 ELSE o

\* The X arm without its guard.
octave_up_unguarded(o) == o + 1

octave_up(o) == IF o < MaxOctave THEN o + 1 ELSE o

velocity_down(v) == IF v > MinVelocity THEN v - VelocityStep ELSE v

\* The V arm with the bound itself passing the guard.
velocity_up_inclusive_guard(v) == IF v <= MaxVelocity THEN v + VelocityStep ELSE v

velocity_up(v) == IF v < MaxVelocity THEN v + VelocityStep ELSE v

\* ------------------------------------------------------------------ history

\* What the caller has seen for a key: a NoteOn starts it sounding at the
\* NoteOn's octave, a NoteOff ends that.
Heard(snd, key, r) ==
    CASE r.type = "NoteOn"  ->
            [k \in DOMAIN snd \cup {key} |-> IF k = key THEN r.octave ELSE snd[k]]
      [] r.type = "NoteOff" -> [k \in DOMAIN snd \ {key} |-> snd[k]]
      [] OTHER              -> snd

\* One more key_pressed call for a note key since its last key_released call:
\* how many there were, how many returned a NoteOn, whether the first did.
Pressed(prs, key, r) ==
    IF key \notin NoteKeys THEN prs
    ELSE LET on == IF r.type = "NoteOn" THEN 1 ELSE 0 IN
         [k \in DOMAIN prs \cup {key} |->
            IF k # key THEN prs[k]
            ELSE IF key \in DOMAIN prs
                 THEN [calls |-> prs[k].calls + 1, ons |-> prs[k].ons + on,
                       first |-> prs[k].first]
                 ELSE [calls |-> 1, ons |-> on, first |-> on = 1]]

\* A key_released call ends the key's run of key_pressed calls.
Released(prs, key) == [k \in DOMAIN prs \ {key} |-> prs[k]]

\* A key_pressed call for a note key starts a new run of key_released calls.
Repressed(rel, key) ==
    IF key \notin NoteKeys THEN rel
    ELSE [k \in DOMAIN rel \cup {key} |->
            IF k = key THEN [found |-> 0, absent |-> 0] ELSE rel[k]]

\* One more key_released call for a key since its last key_pressed call: how
\* many found the key's entry, how many found none.
Unpressed(rel, key, had) ==
    IF key \notin DOMAIN rel THEN rel
    ELSE [rel EXCEPT ![key] = IF had
                              THEN [found |-> @.found + 1, absent |-> @.absent]
                              ELSE [found |-> @.found, absent |-> @.absent + 1]]

\* ------------------------------------------------------------------ actions

\* MusicalKeyboard::new(octave, velocity), with the values the caller is to
\* pass: every octave in range with the default velocity, and every velocity
\* in range with the default octave.
Init ==
    /\ \/ octave \in MinOctave..MaxOctave /\ velocity = DefaultVelocity
       \/ octave = DefaultOctave /\ velocity \in MinVelocity..MaxVelocity
    /\ currently_pressed_keys = HashMap_new
    /\ call = [op |-> "new", key |-> "-"]
    /\ ret = None
    /\ sounding = HashMap_new
    /\ presses = HashMap_new
    /\ releases = HashMap_new
    /\ before = [octave |-> octave, velocity |-> velocity]
    /\ events = 0

\* The keys the caller presses and releases.
EventKeys == {"A", "F", "K", "Z", "X", "C", "V"}

\* key_pressed recording every key it is given, the modifier keys included,
\* before the match.
key_pressed_tracks_every_key(key) ==
    /\ events < MaxEvents
    /\ events' = events + 1
    /\ call' = [op |-> "key_pressed", key |-> key]
    /\ \/ /\ key = "Z"
          /\ octave' = octave_down(octave)
          /\ ret' = None
          /\ currently_pressed_keys' =
                HashMap_insert(currently_pressed_keys, key, octave).map
          /\ UNCHANGED velocity
       \/ /\ key = "X"
          /\ octave' = octave_up(octave)
          /\ ret' = None
          /\ currently_pressed_keys' =
                HashMap_insert(currently_pressed_keys, key, octave).map
          /\ UNCHANGED velocity
       \/ /\ key = "C"
          /\ velocity' = velocity_down(velocity)
          /\ ret' = None
          /\ currently_pressed_keys' =
                HashMap_insert(currently_pressed_keys, key, octave).map
          /\ UNCHANGED octave
       \/ /\ key = "V"
          /\ velocity' = velocity_up(velocity)
          /\ ret' = None
          /\ currently_pressed_keys' =
                HashMap_insert(currently_pressed_keys, key, octave).map
          /\ UNCHANGED octave
       \/ /\ key \notin {"Z", "X", "C", "V"}
          /\ LET on == maybe_note_on(octave, velocity, currently_pressed_keys, key) IN
                /\ currently_pressed_keys' = on.keys
                /\ ret' = on.ret
          /\ UNCHANGED <<octave, velocity>>
    /\ sounding' = Heard(sounding, key, ret')
    /\ presses' = Pressed(presses, key, ret')
    /\ releases' = Repressed(releases, key)
    /\ before' = [octave |-> octave, velocity |-> velocity]

key_pressed(key) ==
    /\ events < MaxEvents
    /\ events' = events + 1
    /\ call' = [op |-> "key_pressed", key |-> key]
    /\ \/ /\ key = "Z"
          /\ octave' = octave_down(octave)
          /\ ret' = None
          /\ UNCHANGED <<velocity, currently_pressed_keys>>
       \/ /\ key = "X"
          /\ octave' = octave_up(octave)
          /\ ret' = None
          /\ UNCHANGED <<velocity, currently_pressed_keys>>
       \/ /\ key = "C"
          /\ velocity' = velocity_down(velocity)
          /\ ret' = None
          /\ UNCHANGED <<octave, currently_pressed_keys>>
       \/ /\ key = "V"
          /\ velocity' = velocity_up(velocity)
          /\ ret' = None
          /\ UNCHANGED <<octave, currently_pressed_keys>>
       \/ /\ key \notin {"Z", "X", "C", "V"}
          /\ LET on == maybe_note_on(octave, velocity, currently_pressed_keys, key) IN
                /\ currently_pressed_keys' = on.keys
                /\ ret' = on.ret
          /\ UNCHANGED <<octave, velocity>>
    /\ sounding' = Heard(sounding, key, ret')
    /\ presses' = Pressed(presses, key, ret')
    /\ releases' = Repressed(releases, key)
    /\ before' = [octave |-> octave, velocity |-> velocity]

key_released(key) ==
    /\ events < MaxEvents
    /\ events' = events + 1
    /\ call' = [op |-> "key_released", key |-> key]
    /\ LET off == maybe_note_off(octave, currently_pressed_keys, key) IN
          /\ currently_pressed_keys' = off.keys
          /\ ret' = off.ret
    /\ UNCHANGED <<octave, velocity>>
    /\ sounding' = Heard(sounding, key, ret')
    /\ presses' = Released(presses, key)
    /\ releases' = Unpressed(releases, key, key \in DOMAIN currently_pressed_keys)
    /\ before' = [octave |-> octave, velocity |-> velocity]

Next ==
    \/ \E key \in EventKeys : key_pressed(key)
    \/ \E key \in EventKeys : key_released(key)

Spec == Init /\ [][Next]_vars

\* A call of the public method maybe_note itself, for any key of the enum: it
\* reads self.octave and changes nothing.
maybe_note_call(key) ==
    /\ events < MaxEvents
    /\ events' = events + 1
    /\ call' = [op |-> "maybe_note", key |-> key]
    /\ ret' = maybe_note(octave, key)
    /\ before' = [octave |-> octave, velocity |-> velocity]
    /\ UNCHANGED <<octave, velocity, currently_pressed_keys, sounding, presses,
                   releases>>

NextMaybeNote == \E key \in Key : maybe_note_call(key)

SpecMaybeNote == Init /\ [][NextMaybeNote]_vars

\* ------------------------------------------------------------------ the spec's table

\* The key-to-note table of the specification: relative octave offset and letter.
TableOffset(k) ==
    IF k \in {"K", "O", "L", "P", "Semicolon", "Quote"} THEN 1 ELSE 0

TableLetter(k) ==
    CASE k \in {"A", "K"}         -> "C"
      [] k \in {"W", "O"}         -> "Csh"
      [] k \in {"S", "L"}         -> "D"
      [] k \in {"E", "P"}         -> "Dsh"
      [] k \in {"D", "Semicolon"} -> "E"
      [] k \in {"F", "Quote"}     -> "F"
      [] k = "T"                  -> "Fsh"
      [] k = "G"                  -> "G"
      [] k = "Y"                  -> "Gsh"
      [] k = "H"                  -> "A"
      [] k = "U"                  -> "Ash"
      [] k = "J"                  -> "B"

\* The step being taken is the call op(k).
Calls(op, k) == call' = [op |-> op, key |-> k]

\* ------------------------------------------------------------------ claims

\* C1: if key_pressed(k) returned a NoteOn with octave o0, the next
\* key_released(k) returns a NoteOff with octave o0, whatever was pressed or
\* released in between (octave keys, other keys, k itself again).
OctaveStableOnRelease ==
    [][\A k \in NoteKeys :
          (Calls("key_released", k) /\ k \in DOMAIN sounding)
              => (ret'.type = "NoteOff" /\ ret'.octave = sounding[k])]_vars

\* C2: among the key_pressed(k) calls made with no key_released(k) in
\* between, exactly one returns a NoteOn, and it is the first.
RepeatSuppression ==
    \A k \in DOMAIN presses : presses[k].ons = 1 /\ presses[k].first

\* C2 witness: a note key pressed three times in a row, without a release.
RepeatSuppressionWitness ==
    \E k \in DOMAIN presses : presses[k].calls >= 3

\* C3: key_pressed(k) for a note key k that already has an entry changes
\* nothing (octave, velocity, every entry of currently_pressed_keys, that of k
\* included) and returns nothing.
RepeatPressChangesNothing ==
    [][\A k \in NoteKeys :
          (Calls("key_pressed", k) /\ k \in DOMAIN currently_pressed_keys)
              => (/\ ret' = None
                  /\ UNCHANGED <<octave, velocity, currently_pressed_keys>>)]_vars

\* C4: the octave stored for every key of currently_pressed_keys is the
\* octave of the NoteOn last returned for that key.
StoredOctaveIsNoteOnOctave ==
    \A k \in DOMAIN currently_pressed_keys :
        k \in DOMAIN sounding /\ currently_pressed_keys[k] = sounding[k]

\* C5: a key has an entry in currently_pressed_keys exactly when a NoteOn has
\* been returned for it and no NoteOff since; per key, key_pressed leads to
\* Held, key_released leads to Released.
HeldIffSounding == DOMAIN currently_pressed_keys = DOMAIN sounding

KeyStateMachine ==
    \A k \in NoteKeys :
        /\ Calls("key_pressed", k) => k \in DOMAIN currently_pressed_keys'
        /\ Calls("key_released", k) => k \notin DOMAIN currently_pressed_keys'
        /\ (~Calls("key_pressed", k) /\ ~Calls("key_released", k))
              => (k \in DOMAIN currently_pressed_keys'
                    <=> k \in DOMAIN currently_pressed_keys)

PressedIffUnpairedNoteOn == []HeldIffSounding /\ [][KeyStateMachine]_vars

\* C5 witness: one key is held while another has been pressed and released.
PressedIffUnpairedNoteOnWitness ==
    /\ DOMAIN currently_pressed_keys = {"A"}
    /\ call = [op |-> "key_released", key |-> "K"]
    /\ ret = NoteOff("C", octave + 1)
    /\ events >= 3

\* C6: for a keyboard constructed with octave in [-2, 12], the octave stays
\* in [-2, 12] after every sequence of calls.
OctaveInBounds == -2 <= octave /\ octave <= 12

\* C6 witness: X has been pressed with the octave at its upper bound.
OctaveInBoundsWitness ==
    /\ call = [op |-> "key_pressed", key |-> "X"]
    /\ octave = 12
    /\ events = MaxEvents

\* C7: for a keyboard constructed with velocity in [0.0, 1.0], the velocity
\* stays in [0.0, 1.0] after every sequence of calls.
VelocityInBounds == 0 <= velocity /\ velocity <= 100

\* C8: key_pressed and key_released of Z, X, C or V return no event.
ModifierIsolation ==
    call.key \in {"Z", "X", "C", "V"} => ret = None

\* C8 witness: a modifier key is released while a note key is held.
ModifierIsolationWitness ==
    /\ call.op = "key_released"
    /\ call.key \in {"Z", "X", "C", "V"}
    /\ currently_pressed_keys # HashMap_new

\* C9: key_pressed(k) for a note key k with no entry returns
\* NoteOn{letter(k), offset(k) + octave, velocity}, stores that octave for k,
\* and leaves octave and velocity as they were.
NoteOnForFreshKey ==
    [][\A k \in NoteKeys :
          (Calls("key_pressed", k) /\ k \notin DOMAIN currently_pressed_keys)
              => (/\ ret' = NoteOn(TableLetter(k), TableOffset(k) + octave, velocity)
                  /\ k \in DOMAIN currently_pressed_keys'
                  /\ currently_pressed_keys'[k] = TableOffset(k) + octave
                  /\ UNCHANGED <<octave, velocity>>)]_vars

\* C9 witness: K pressed on the default keyboard gives NoteOn{C, 3, 1.0}.
NoteOnForFreshKeyWitness ==
    /\ call = [op |-> "key_pressed", key |-> "K"]
    /\ ret = NoteOn("C", DefaultOctave + 1, DefaultVelocity)
    /\ octave = DefaultOctave
    /\ "K" \in DOMAIN currently_pressed_keys
    /\ currently_pressed_keys["K"] = DefaultOctave + 1

\* C10: key_released(k) for a note key k with no entry returns
\* NoteOff{letter(k), offset(k) + octave} and leaves octave, velocity and
\* currently_pressed_keys as they were.
NoteOffForAbsentKey ==
    [][\A k \in NoteKeys :
          (Calls("key_released", k) /\ k \notin DOMAIN currently_pressed_keys)
              => (/\ ret' = NoteOff(TableLetter(k), TableOffset(k) + octave)
                  /\ UNCHANGED <<octave, velocity, currently_pressed_keys>>)]_vars

\* C10 witness: K released as the first call on a keyboard, when nothing is held.
NoteOffForAbsentKeyWitness ==
    /\ call = [op |-> "key_released", key |-> "K"]
    /\ ret = NoteOff("C", octave + 1)
    /\ "K" \notin DOMAIN presses
    /\ currently_pressed_keys = HashMap_new
    /\ events = 1

\* C11: between two consecutive key_pressed(k) calls at most one
\* key_released(k) finds an entry for k, and it returns the NoteOff with the
\* stored octave; every further key_released(k) finds none and returns the
\* NoteOff with the key's current octave.
AtMostOneStoredRelease ==
    \A k \in DOMAIN releases :
        /\ releases[k].found <= 1
        /\ releases[k].absent > 0 => releases[k].found = 1

ReleaseEmits ==
    \A k \in NoteKeys :
        Calls("key_released", k) =>
            IF k \in DOMAIN currently_pressed_keys
            THEN ret' = NoteOff(TableLetter(k), currently_pressed_keys[k])
            ELSE ret' = NoteOff(TableLetter(k), TableOffset(k) + octave)

Pairing == []AtMostOneStoredRelease /\ [][ReleaseEmits]_vars

\* C11 witness: A was pressed and then released twice; the first release
\* found the entry, the second found none and returned the current octave.
PairingWitness ==
    /\ "A" \in DOMAIN releases
    /\ releases["A"] = [found |-> 1, absent |-> 1]
    /\ call = [op |-> "key_released", key |-> "A"]
    /\ ret = NoteOff("C", octave)
    /\ events >= 3

\* C12: maybe_note yields a note for exactly the 18 note keys and none for
\* Z, X, C, V; the 18 keys have pairwise distinct (relative octave, letter)
\* pairs: the 12 letters at offset 0 and C, Csh, D, Dsh, E, F at offset 1,
\* key by key as in the specification's table.
MappingComplete ==
    /\ call.op = "maybe_note" =>
          /\ ret.some <=> call.key \in
                {"A", "W", "S", "E", "D", "F", "T", "G", "Y", "H", "U", "J",
                 "K", "O", "L", "P", "Semicolon", "Quote"}
          /\ call.key \in {"Z", "X", "C", "V"} => ~ret.some
          /\ ret.some => /\ ret.letter = TableLetter(call.key)
                         /\ ret.octave = TableOffset(call.key) + octave
    /\ LET noted == {k \in Key : maybe_note(octave, k).some}
           pair(k) == <<maybe_note(octave, k).octave - octave,
                        maybe_note(octave, k).letter>>
       IN  /\ Cardinality(noted) = 18
           /\ \A k1, k2 \in noted : k1 # k2 => pair(k1) # pair(k2)
           /\ {pair(k) : k \in noted} =
                 ({0} \X {"C", "Csh", "D", "Dsh", "E", "F", "Fsh", "G", "Gsh",
                          "A", "Ash", "B"})
                 \cup ({1} \X {"C", "Csh", "D", "Dsh", "E", "F"})

\* C12 witness: maybe_note(Quote) on a keyboard at the default octave is (F, 3).
MappingCompleteWitness ==
    /\ call = [op |-> "maybe_note", key |-> "Quote"]
    /\ octave = DefaultOctave
    /\ ret = [some |-> TRUE, letter |-> "F", octave |-> DefaultOctave + 1]

\* C13: key_pressed(Z) lowers octave by exactly 1 when octave > -2 and leaves
\* it when octave = -2; key_pressed(X) raises it by exactly 1 when octave < 12
\* and leaves it when octave = 12; both leave velocity and
\* currently_pressed_keys as they were and return nothing.
OctaveKeysStep ==
    [][/\ Calls("key_pressed", "Z") =>
            /\ octave > -2 => octave' = octave - 1
            /\ octave = -2 => octave' = octave
            /\ ret' = None
            /\ UNCHANGED <<velocity, currently_pressed_keys>>
       /\ Calls("key_pressed", "X") =>
            /\ octave < 12 => octave' = octave + 1
            /\ octave = 12 => octave' = octave
            /\ ret' = None
            /\ UNCHANGED <<velocity, currently_pressed_keys>>]_vars

\* C13 witness: X pressed at octave 12, with K held, leaves the octave at 12.
OctaveKeysStepWitness ==
    /\ call = [op |-> "key_pressed", key |-> "X"]
    /\ before.octave = 12
    /\ octave = 12
    /\ "K" \in DOMAIN currently_pressed_keys

\* C14: key_pressed(C) subtracts exactly 0.05 from velocity when velocity > 0.0
\* and leaves it otherwise; key_pressed(V) adds exactly 0.05 when
\* velocity < 1.0 and leaves it otherwise; both leave octave and
\* currently_pressed_keys as they were and return nothing, and the next NoteOn
\* carries the velocity they left.
VelocityKeysStep ==
    [][/\ Calls("key_pressed", "C") =>
            /\ velocity > 0 => velocity' = velocity - 5
            /\ ~(velocity > 0) => velocity' = velocity
            /\ ret' = None
            /\ UNCHANGED <<octave, currently_pressed_keys>>
       /\ Calls("key_pressed", "V") =>
            /\ velocity < 100 => velocity' = velocity + 5
            /\ ~(velocity < 100) => velocity' = velocity
            /\ ret' = None
            /\ UNCHANGED <<octave, currently_pressed_keys>>
       /\ ret'.type = "NoteOn" => ret'.velocity = velocity]_vars

\* C14 witness: C pressed at velocity 1.0, after an earlier call, leaves 0.95.
VelocityKeysStepWitness ==
    /\ call = [op |-> "key_pressed", key |-> "C"]
    /\ before.velocity = 100
    /\ velocity = 95
    /\ events >= 2

\* C15: only note keys have entries in currently_pressed_keys: Z, X, C and V
\* never do, so the map never has more than 18 entries.
OnlyNoteKeysPressed ==
    /\ DOMAIN currently_pressed_keys \cap {"Z", "X", "C", "V"} = {}
    /\ DOMAIN currently_pressed_keys \subseteq
          {"A", "W", "S", "E", "D", "F", "T", "G", "Y", "H", "U", "J",
           "K", "O", "L", "P", "Semicolon", "Quote"}
    /\ Cardinality(DOMAIN currently_pressed_keys) <= 18

\* C15 witness: a modifier key has just been pressed while three note keys are held.
OnlyNoteKeysPressedWitness ==
    /\ call.op = "key_pressed"
    /\ call.key \in {"Z", "X", "C", "V"}
    /\ DOMAIN currently_pressed_keys = {"A", "F", "K"}

\* C16: key_released(key), for every key, leaves octave and velocity as they
\* were and changes currently_pressed_keys at most by removing key; for Z, X,
\* C and V it changes nothing at all.
ReleaseFrame ==
    [][\A k \in Key :
          Calls("key_released", k) =>
             /\ UNCHANGED <<octave, velocity>>
             /\ DOMAIN currently_pressed_keys' = DOMAIN currently_pressed_keys \ {k}
             /\ \A j \in DOMAIN currently_pressed_keys' :
                    currently_pressed_keys'[j] = currently_pressed_keys[j]
             /\ k \in {"Z", "X", "C", "V"} =>
                    UNCHANGED <<octave, velocity, currently_pressed_keys>>]_vars

\* C16 witness: X was pressed (octave 2 to 3, on a keyboard constructed with
\* velocity 0.97) and has just been released with A held: the octave stays 3.
ReleaseFrameWitness ==
    /\ call = [op |-> "key_released", key |-> "X"]
    /\ velocity = 97
    /\ before.octave = DefaultOctave + 1
    /\ octave = DefaultOctave + 1
    /\ DOMAIN currently_pressed_keys = {"A"}

\* C17: key_pressed(k) and key_released(k) for a note key k never add, remove
\* or change the entry of another key, and never change octave or velocity.
KeysIndependent ==
    [][\A k \in NoteKeys :
          (Calls("key_pressed", k) \/ Calls("key_released", k)) =>
             /\ UNCHANGED <<octave, velocity>>
             /\ \A j \in Key \ {k} :
                   /\ j \in DOMAIN currently_pressed_keys'
                         <=> j \in DOMAIN currently_pressed_keys
                   /\ j \in DOMAIN currently_pressed_keys =>
                         currently_pressed_keys'[j] = currently_pressed_keys[j]]_vars

\* C17 witness: A and K are held together, A pressed at base octave 2 and K
\* at base octave 3.
KeysIndependentWitness ==
    /\ call = [op |-> "key_pressed", key |-> "K"]
    /\ DOMAIN currently_pressed_keys = {"A", "K"}
    /\ currently_pressed_keys["A"] = 2
    /\ currently_pressed_keys["K"] = 4
    /\ sounding = currently_pressed_keys

\* C18: for a keyboard constructed with octave in [-2, 12], every NoteOn and
\* NoteOff returned and every octave stored in currently_pressed_keys is in
\* [-2, 13].
NoteOctavesInBounds ==
    /\ ret.type \in {"NoteOn", "NoteOff"} => (-2 <= ret.octave /\ ret.octave <= 13)
    /\ \A k \in DOMAIN currently_pressed_keys :
          -2 <= currently_pressed_keys[k] /\ currently_pressed_keys[k] <= 13

\* C18 witness: K pressed at base octave 12 gives a NoteOn at octave 13.
NoteOctavesInBoundsWitness ==
    /\ call = [op |-> "key_pressed", key |-> "K"]
    /\ ret.type = "NoteOn"
    /\ ret.octave = 13
    /\ currently_pressed_keys["K"] = 13

====
